---- MODULE Spec2Model ----
(***************************************************************************)
(* gig-sheets: the page layout of cmd/generate.go (generatePDF and         *)
(* addErrorText) as a state machine.  Lengths are millimetres, held as     *)
(* exact rationals <<numerator, denominator>>; float64 rounding is not     *)
(* modelled.  The output of a generation is the sequence of calls made on  *)
(* the PDF object (AddPage, footer Cell, ImageOptions, MultiCell).         *)
(* The other operations of cmd/generate.go follow, each with its own       *)
(* specification: the spacing of a run (SpecSpacing), the classification   *)
(* of a pixel (SpecPixel), cropImage (SpecCrop), the batch of              *)
(* generateAllGigs (SpecBatch) and the event loop of watch mode            *)
(* (SpecWatch).                                                            *)
(***************************************************************************)
EXTENDS Integers, Sequences, FiniteSets, TLC

(***************************************************************************)
(* Exact rational arithmetic.                                              *)
(***************************************************************************)
Abs(n) == IF n < 0 THEN -n ELSE n

RECURSIVE Gcd(_, _)
Gcd(a, b) == IF b = 0 THEN a ELSE Gcd(b, a % b)

Lcm(a, b) == (a \div Gcd(a, b)) * b

\* the rational n/d (d # 0) in lowest terms with a positive denominator
RNorm(n, d) ==
  IF d = 1 THEN <<n, 1>>
  ELSE LET g == Gcd(Abs(n), Abs(d))
           s == IF d < 0 THEN -1 ELSE 1
       IN  <<(s * n) \div g, (s * d) \div g>>

R(n) == <<n, 1>>

RAdd(p, q) ==
  IF p[2] = q[2] THEN RNorm(p[1] + q[1], p[2])
  ELSE LET l == Lcm(p[2], q[2])
       IN  RNorm(p[1] * (l \div p[2]) + q[1] * (l \div q[2]), l)

RNeg(p) == <<-p[1], p[2]>>

RSub(p, q) == RAdd(p, RNeg(q))

\* cross-cancelled so that no intermediate product is larger than the result
RMul(p, q) ==
  LET g1 == Gcd(Abs(p[1]), q[2])
      g2 == Gcd(Abs(q[1]), p[2])
      a  == IF g1 = 0 THEN 1 ELSE g1
      b  == IF g2 = 0 THEN 1 ELSE g2
  IN  RNorm((p[1] \div a) * (q[1] \div b), (p[2] \div b) * (q[2] \div a))

RInv(p) == RNorm(p[2], p[1])

RDiv(p, q) == RMul(p, RInv(q))

RLt(p, q) ==
  IF p[2] = q[2] THEN p[1] < q[1]
  ELSE LET l == Lcm(p[2], q[2])
       IN  p[1] * (l \div p[2]) < q[1] * (l \div q[2])

RLe(p, q) == p = q \/ RLt(p, q)

RGt(p, q) == RLt(q, p)

(***************************************************************************)
(* Layout constants of generatePDF and addErrorText (millimetres).         *)
(***************************************************************************)
PageWidth == 210
PageHeight == 297
Margin == 10
FooterHeight == 15
ErrorHeight == 10
PtToMmNum == 352778
PtToMmDen == 1000000

pageWidth == R(PageWidth)
pageHeight == R(PageHeight)
margin == R(Margin)
footerHeight == R(FooterHeight)
errorHeight == R(ErrorHeight)
availableWidth == RSub(pageWidth, RMul(R(2), margin))

\* the factor 0.352778
MmPerPt == RNorm(PtToMmNum, PtToMmDen)

\* naturalWidth * 0.352778
PtToMm(x) == RMul(x, MmPerPt)

\* the extent, in points, that converts to exactly m millimetres
PtOfMm(m) == RDiv(R(m), MmPerPt)

(***************************************************************************)
(* Strings are sequences of one-character strings.                         *)
(***************************************************************************)
Default == <<"d", "e", "f", "a", "u", "l", "t">>
Big == <<"b", "i", "g">>
Alt == <<"a", "l", "t">>

RECURSIVE SplitAcc(_, _, _)
SplitAcc(s, cur, acc) ==
  IF s = <<>> THEN Append(acc, cur)
  ELSE IF Head(s) = "#" THEN SplitAcc(Tail(s), <<>>, Append(acc, cur))
  ELSE SplitAcc(Tail(s), Append(cur, Head(s)), acc)

\* strings.Split(songName, "#")
Split(s) == SplitAcc(s, <<>>, <<>>)

(***************************************************************************)
(* The inputs of a generation: the songs of config.yaml, and the files of  *)
(* the image folder as the calls on them answer (os.Stat, os.Open, the     *)
(* decoders, the encoders, gofpdf's RegisterImage and Extent).             *)
(***************************************************************************)
NoImages == [n \in {} |-> ""]

ConfigSongs ==
  << [nickname |-> <<"a">>, image |-> "a.png", images |-> (Big :> "a_big.png")],
     [nickname |-> <<"b">>, image |-> "b.png", images |-> NoImages],
     [nickname |-> <<"n">>, image |-> "",      images |-> (Alt :> "a_big.png")],
     [nickname |-> <<"m">>, image |-> "m.png", images |-> NoImages],
     [nickname |-> <<"u">>, image |-> "u.png", images |-> NoImages],
     [nickname |-> <<"c">>, image |-> "c.png", images |-> NoImages],
     [nickname |-> <<"g">>, image |-> "g.gif", images |-> NoImages],
     [nickname |-> <<"r">>, image |-> "r.png", images |-> NoImages],
     [nickname |-> <<"t">>, image |-> "t.png", images |-> NoImages] >>

\* a file of the image folder: readable (os.Open succeeds), decodable (the
\* decoder chosen by the extension succeeds), encodable (the cropped raster
\* encodes), registers (gofpdf returns an ImageInfoType), and the extents in
\* points of the cropped raster (w, h) and of the file as stored (ow, oh)
File(readable, decodable, encodable, registers, w, h, ow, oh) ==
  [readable |-> readable, decodable |-> decodable, encodable |-> encodable,
   registers |-> registers, w |-> w, h |-> h, ow |-> ow, oh |-> oh]

Files ==
  ( "a.png"     :> File(TRUE, TRUE, TRUE, TRUE,
                        PtOfMm(70), PtOfMm(126), PtOfMm(80), PtOfMm(140)) )
  @@ ( "a_big.png" :> File(TRUE, TRUE, TRUE, TRUE,
                        R(1900), R(1260), R(2000), R(1300)) )
  @@ ( "b.png"     :> File(TRUE, TRUE, TRUE, TRUE,
                        PtOfMm(190), PtOfMm(242), PtOfMm(190), PtOfMm(242)) )
  @@ ( "u.png"     :> File(FALSE, FALSE, FALSE, FALSE,
                        R(0), R(0), R(0), R(0)) )
  @@ ( "c.png"     :> File(TRUE, FALSE, FALSE, FALSE,
                        R(0), R(0), R(0), R(0)) )
  @@ ( "g.gif"     :> File(TRUE, FALSE, FALSE, TRUE,
                        R(0), R(0), R(200), R(100)) )
  @@ ( "r.png"     :> File(TRUE, TRUE, TRUE, FALSE,
                        R(200), R(100), R(200), R(100)) )
  @@ ( "t.png"     :> File(TRUE, TRUE, TRUE, TRUE,
                        R(595), R(842), R(595), R(842)) )

\* the song references a gig file may hold
Refs ==
  { <<"a">>, <<"a", "#", "b", "i", "g">>, <<"a", "#", "x">>, <<"b">>,
    <<"n">>, <<"z">>, <<"m">>, <<"u">> }

Spacings == {R(0), R(5)}
Overrides == {<<>>, Big}

\* songMap of generatePDF: nickname -> (image name -> path)
ImageMapOf(song) ==
  [name \in (IF song.image # "" THEN {Default} ELSE {}) \cup DOMAIN song.images |->
     IF name \in DOMAIN song.images THEN song.images[name] ELSE song.image]

RECURSIVE SongMapOf(_)
SongMapOf(songs) ==
  IF songs = <<>> THEN [n \in {} |-> <<>>]
  ELSE LET last == songs[Len(songs)]
       IN  (last.nickname :> ImageMapOf(last)) @@ SongMapOf(SubSeq(songs, 1, Len(songs) - 1))

songMap == SongMapOf(ConfigSongs)

(***************************************************************************)
(* Bounds of the model.                                                    *)
(***************************************************************************)
MaxSets == 2
MaxEntries == 3
MaxDocs == 2

(***************************************************************************)
(* State of one generatePDF call.                                          *)
(*   pc            position in generatePDF: "start", "sets" (at the set    *)
(*                 loop, no set read yet), "songs" (in the song loop of    *)
(*                 the last set read), "done"                              *)
(*   spacing       the spacing parameter                                   *)
(*   imageOverride the imageOverride parameter ("" = <<>>)                 *)
(*   gig           gig.Sets as far as the loops have read them             *)
(*   currentY      the cursor                                              *)
(*   pageNum       the page counter of addFooter                           *)
(*   ops           the calls made on the PDF object so far                 *)
(*   images        the images registered with the PDF object, by name      *)
(*   pdfErr        a RegisterImage call failed (gofpdf keeps the error)    *)
(*   result        what generatePDF returned                               *)
(***************************************************************************)
VARIABLES pc, spacing, imageOverride, gig, currentY, pageNum, ops, images, pdfErr, result

layoutVars == <<pc, spacing, imageOverride, gig, currentY, pageNum, ops, images, pdfErr, result>>

(***************************************************************************)
(* State of the other operations of generate.go.  Each specification below *)
(* runs one operation and leaves the state of the others as constructed.   *)
(*                                                                         *)
(* runGenerate and resolveSpacing:                                         *)
(*   spacingPc     "idle", "args" (command line parsed), "flag"            *)
(*                 (runGenerate has set spacingFlag), "resolved"           *)
(*   spacingArg    the --spacing argument: <<>> if absent, else <<v>>      *)
(*   configSpacing config.Spacing: <<>> for nil, else <<v>>                *)
(*   spacingFlag   the spacingFlag global: <<>> for nil, else <<v>>        *)
(*   resolved      what resolveSpacing returned: <<>> before, else <<v>>   *)
(***************************************************************************)
VARIABLES spacingPc, spacingArg, configSpacing, spacingFlag, resolved

spacingVars == <<spacingPc, spacingArg, configSpacing, spacingFlag, resolved>>

(***************************************************************************)
(* isWhiteOrTransparent:                                                   *)
(*   pixel         the colour passed in, as a decoded image stores it      *)
(*   classified    <<>> before the call, else <<the boolean returned>>     *)
(***************************************************************************)
VARIABLES pixel, classified

pixelVars == <<pixel, classified>>

(***************************************************************************)
(* cropImage:                                                              *)
(*   img           the decoded raster: [w, h, pix], pix[<<x, y>>] a colour *)
(*   detected      the four bounds cropImage found, <<>> before the call   *)
(*   croppedImg    <<the raster cropImage returned>>, <<>> before the call *)
(*   redetected    the four bounds found on croppedImg, <<>> before        *)
(***************************************************************************)
VARIABLES img, detected, croppedImg, redetected

cropVars == <<img, detected, croppedImg, redetected>>

(***************************************************************************)
(* generateAllGigs:                                                        *)
(*   batchPc       "idle", "start", "loop", "all", "returned"              *)
(*   gigsDir       the names of the files of the gigs folder               *)
(*   allSongs      the --all-songs flag                                    *)
(*   gigFiles      the gigFiles slice                                      *)
(*   attempts      the documents attempted so far, in order, each with its *)
(*                 outcome                                                 *)
(*   batchErr      what generateAllGigs returned: "none" before, "nil",    *)
(*                 or "error"                                              *)
(***************************************************************************)
VARIABLES batchPc, gigsDir, allSongs, gigFiles, attempts, batchErr

batchVars == <<batchPc, gigsDir, allSongs, gigFiles, attempts, batchErr>>

(***************************************************************************)
(* the event loop of runGenerateWatch (times in milliseconds):             *)
(*   watching      the loop is running                                     *)
(*   now           the time                                                *)
(*   timers        the deadlines of the timers started and neither fired   *)
(*                 nor stopped                                             *)
(*   debounceTimer the debounceTimer variable: <<>> for nil, else          *)
(*                 <<deadline of the timer it points to>>                  *)
(*   events        the events received so far: [at, op]                    *)
(*   regens        the times at which a regeneration was started           *)
(*   running       the number of generateAllGigs calls started by timers   *)
(*                 that have not returned                                  *)
(***************************************************************************)
VARIABLES watching, now, timers, debounceTimer, events, regens, running

watchVars == <<watching, now, timers, debounceTimer, events, regens, running>>

vars == <<layoutVars, spacingVars, pixelVars, cropVars, batchVars, watchVars>>

\* the state of an operation that is not running
IdleLayout ==
  /\ pc = "idle"
  /\ spacing = <<5, 1>>
  /\ imageOverride = <<>>
  /\ gig = <<>>
  /\ currentY = <<10, 1>>
  /\ pageNum = 0
  /\ ops = <<>>
  /\ images = <<>>
  /\ pdfErr = FALSE
  /\ result = "none"

IdleSpacing ==
  /\ spacingPc = "idle"
  /\ spacingArg = <<>>
  /\ configSpacing = <<>>
  /\ spacingFlag = <<>>
  /\ resolved = <<>>

IdlePixel ==
  /\ pixel = <<>>
  /\ classified = <<>>

IdleCrop ==
  /\ img = <<>>
  /\ detected = <<>>
  /\ croppedImg = <<>>
  /\ redetected = <<>>

IdleBatch ==
  /\ batchPc = "idle"
  /\ gigsDir = {}
  /\ allSongs = FALSE
  /\ gigFiles = <<>>
  /\ attempts = <<>>
  /\ batchErr = "none"

IdleWatch ==
  /\ watching = FALSE
  /\ now = 0
  /\ timers = {}
  /\ debounceTimer = <<>>
  /\ events = <<>>
  /\ regens = <<>>
  /\ running = 0

\* number of songs the loops have read
RECURSIVE CountSongs(_)
CountSongs(sets) ==
  IF sets = <<>> THEN 0 ELSE Len(Head(sets)) + CountSongs(Tail(sets))

\* the cursor state the helpers below thread through
Layout ==
  [currentY |-> currentY, pageNum |-> pageNum, ops |-> ops, images |-> images,
   pdfErr |-> pdfErr]

\* pdf.AddPage()
AddPage(L) == [L EXCEPT !.ops = Append(@, [op |-> "StartPage"])]

\* addFooter without pageNum++ (a variant the page numbering must tell apart)
addFooterNoIncrement(L) ==
  [L EXCEPT !.ops = Append(@, [op |-> "Footer", page |-> L.pageNum + 1])]

\* the addFooter closure: pageNum++, then the footer cell "<name> - Page <n>"
addFooter(L) ==
  [L EXCEPT !.pageNum = @ + 1,
            !.ops = Append(@, [op |-> "Footer", page |-> L.pageNum + 1])]

\* pageHeight - footerHeight - margin - currentY
remainingHeight(L) ==
  RSub(RSub(RSub(pageHeight, footerHeight), margin), L.currentY)

\* addErrorText advancing by the lines of the message instead of errorHeight
addErrorTextByLines(L, sp, errorMsg, entry) ==
  LET L1 == IF RLt(remainingHeight(L), RAdd(errorHeight, sp))
            THEN [addFooter(AddPage(L)) EXCEPT !.currentY = margin]
            ELSE L
      lines == IF errorMsg.kind = "NoImage" THEN 2 ELSE 1
  IN  [L1 EXCEPT !.ops = Append(@, [op |-> "PlaceError", entry |-> entry,
                                    x |-> margin, y |-> L1.currentY,
                                    text |-> errorMsg]),
                 !.currentY = RAdd(@, RAdd(RMul(R(lines), errorHeight), sp))]

\* addErrorText emitting the error block ahead of the blocks placed so far
addErrorTextFirst(L, sp, errorMsg, entry) ==
  LET L1 == IF RLt(remainingHeight(L), RAdd(errorHeight, sp))
            THEN [addFooter(AddPage(L)) EXCEPT !.currentY = margin]
            ELSE L
  IN  [L1 EXCEPT !.ops = <<[op |-> "PlaceError", entry |-> entry,
                            x |-> margin, y |-> L1.currentY,
                            text |-> errorMsg]>> \o @,
                 !.currentY = RAdd(@, RAdd(errorHeight, sp))]

\* addErrorText leaving the cursor where the error block starts
addErrorTextNoAdvance(L, sp, errorMsg, entry) ==
  LET L1 == IF RLt(remainingHeight(L), RAdd(errorHeight, sp))
            THEN [addFooter(AddPage(L)) EXCEPT !.currentY = margin]
            ELSE L
  IN  [L1 EXCEPT !.ops = Append(@, [op |-> "PlaceError", entry |-> entry,
                                    x |-> margin, y |-> L1.currentY,
                                    text |-> errorMsg])]

\* addErrorText: the space check, the red MultiCell at (margin, currentY),
\* currentY += errorHeight + spacing
addErrorText(L, sp, errorMsg, entry) ==
  LET L1 == IF RLt(remainingHeight(L), RAdd(errorHeight, sp))
            THEN [addFooter(AddPage(L)) EXCEPT !.currentY = margin]
            ELSE L
  IN  [L1 EXCEPT !.ops = Append(@, [op |-> "PlaceError", entry |-> entry,
                                    x |-> margin, y |-> L1.currentY,
                                    text |-> errorMsg]),
                 !.currentY = RAdd(@, RAdd(errorHeight, sp))]

\* the scaling applied to every image, narrower ones too
ScaledSizeToFit(naturalWidth, naturalHeight) ==
  LET imageWidth  == PtToMm(naturalWidth)
      imageHeight == PtToMm(naturalHeight)
      scale == RDiv(availableWidth, imageWidth)
  IN  [w |-> availableWidth, h |-> RMul(imageHeight, scale)]

\* imageWidth, imageHeight after the points-to-mm conversion and the scaling
ScaledSize(naturalWidth, naturalHeight) ==
  LET imageWidth  == PtToMm(naturalWidth)
      imageHeight == PtToMm(naturalHeight)
  IN  IF RGt(imageWidth, availableWidth)
      THEN LET scale == RDiv(availableWidth, imageWidth)
           IN  [w |-> availableWidth, h |-> RMul(imageHeight, scale)]
      ELSE [w |-> imageWidth, h |-> imageHeight]

\* placeImage breaking the page when the image fits exactly (<= for <)
placeImageNonStrict(L, sp, entry, finalImagePath, naturalWidth, naturalHeight) ==
  LET size == ScaledSize(naturalWidth, naturalHeight)
      L1 == IF RLe(remainingHeight(L), RAdd(size.h, sp))
            THEN [addFooter(AddPage(L)) EXCEPT !.currentY = margin]
            ELSE L
  IN  [L1 EXCEPT !.ops = Append(@, [op |-> "PlaceImage", entry |-> entry,
                                    x |-> margin, y |-> L1.currentY,
                                    w |-> size.w, h |-> size.h,
                                    image |-> finalImagePath]),
                 !.currentY = RAdd(@, RAdd(size.h, sp))]

\* placeImage advancing the cursor by the image height alone
placeImageNoSpacing(L, sp, entry, finalImagePath, naturalWidth, naturalHeight) ==
  LET size == ScaledSize(naturalWidth, naturalHeight)
      L1 == IF RLt(remainingHeight(L), RAdd(size.h, sp))
            THEN [addFooter(AddPage(L)) EXCEPT !.currentY = margin]
            ELSE L
  IN  [L1 EXCEPT !.ops = Append(@, [op |-> "PlaceImage", entry |-> entry,
                                    x |-> margin, y |-> L1.currentY,
                                    w |-> size.w, h |-> size.h,
                                    image |-> finalImagePath]),
                 !.currentY = RAdd(@, size.h)]

\* generatePDF from imageInfo.Extent() to currentY += imageHeight + spacing
placeImage(L, sp, entry, finalImagePath, naturalWidth, naturalHeight) ==
  LET size == ScaledSize(naturalWidth, naturalHeight)
      L1 == IF RLt(remainingHeight(L), RAdd(size.h, sp))
            THEN [addFooter(AddPage(L)) EXCEPT !.currentY = margin]
            ELSE L
  IN  [L1 EXCEPT !.ops = Append(@, [op |-> "PlaceImage", entry |-> entry,
                                    x |-> margin, y |-> L1.currentY,
                                    w |-> size.w, h |-> size.h,
                                    image |-> finalImagePath]),
                 !.currentY = RAdd(@, RAdd(size.h, sp))]

\* cropImage returns an image (no error): the file opens and decodes
cropImageOk(imagePath) == Files[imagePath].readable /\ Files[imagePath].decodable

\* pdf.RegisterImage / pdf.RegisterImageReader: <<info>>, or <<>> for nil.
\* An image already registered under the name is returned as it is.
RegisterImage(L, name, registers, w, h) ==
  IF name \in DOMAIN L.images THEN <<L.images[name]>>
  ELSE IF registers THEN <<[w |-> w, h |-> h]>>
  ELSE <<>>

\* generatePDF from cropImage to the imageInfo == nil test: the image is
\* registered (cropped, or the file as stored) and placed, or the entry is
\* skipped
registerAndPlace(L, sp, entry, songName, imagePath) ==
  LET f == Files[imagePath]
      useCropped == cropImageOk(imagePath) /\ f.encodable
      finalImagePath == IF useCropped THEN <<"cropped", songName>> ELSE <<"file", imagePath>>
      imageInfo == IF useCropped
                   THEN RegisterImage(L, finalImagePath, f.registers, f.w, f.h)
                   ELSE RegisterImage(L, finalImagePath, f.registers, f.ow, f.oh)
  IN  IF imageInfo = <<>>
      THEN [L EXCEPT !.pdfErr = TRUE]
      ELSE placeImage([L EXCEPT !.images = (finalImagePath :> imageInfo[1]) @@ @],
                      sp, entry, finalImagePath, imageInfo[1].w, imageInfo[1].h)

\* the lookup falling back to "default" for an image name the song lacks
imageNameOrDefault(imageMap, parts, override) ==
  LET imageName == IF Len(parts) > 1 THEN parts[2] ELSE Default
  IN  IF override # <<>> /\ override \in DOMAIN imageMap THEN override
      ELSE IF imageName \in DOMAIN imageMap THEN imageName
      ELSE Default

\* the lookup letting an image name written in the reference win over the
\* override
imageNameRefFirst(imageMap, parts, override) ==
  LET imageName == IF Len(parts) > 1 THEN parts[2] ELSE Default
  IN  IF Len(parts) = 1 /\ override # <<>> /\ override \in DOMAIN imageMap
      THEN override ELSE imageName

\* the image name generatePDF looks up for a song reference
imageNameOf(imageMap, parts, override) ==
  LET imageName == IF Len(parts) > 1 THEN parts[2] ELSE Default
  IN  IF override # <<>> /\ override \in DOMAIN imageMap THEN override ELSE imageName

\* one iteration of the song loop of generatePDF
songStep(L, sp, override, songName, entry) ==
  LET parts == Split(songName)
      actualSongName == parts[1]
  IN  IF actualSongName \notin DOMAIN songMap
      THEN addErrorText(L, sp, [kind |-> "NoSong", song |-> actualSongName], entry)
      ELSE LET imageMap == songMap[actualSongName]
               imageName == imageNameOf(imageMap, parts, override)
           IN  IF imageName \notin DOMAIN imageMap
               THEN addErrorText(L, sp, [kind |-> "NoImage", image |-> imageName,
                                         song |-> actualSongName], entry)
               ELSE LET imagePath == imageMap[imageName]
                    IN  IF imagePath \notin DOMAIN Files
                        THEN addErrorText(L, sp, [kind |-> "NotFound", path |-> imagePath], entry)
                        ELSE registerAndPlace(L, sp, entry, songName, imagePath)

\* the set separator without the currentY > margin test
setBoundaryAlways(L, setIndex) ==
  IF setIndex > 0
  THEN [addFooter(AddPage(L)) EXCEPT !.currentY = margin]
  ELSE L

\* the set separator at the head of the set loop
setBoundary(L, setIndex) ==
  IF setIndex > 0 /\ RGt(L.currentY, margin)
  THEN [addFooter(AddPage(L)) EXCEPT !.currentY = margin]
  ELSE L

\* the variables take the values the helpers computed
Adopt(L) ==
  /\ currentY' = L.currentY
  /\ pageNum' = L.pageNum
  /\ ops' = L.ops
  /\ images' = L.images
  /\ pdfErr' = L.pdfErr

Init ==
  /\ pc = "start"
  /\ spacing \in Spacings
  /\ imageOverride \in Overrides
  /\ gig = <<>>
  /\ currentY = margin
  /\ pageNum = 0
  /\ ops = <<>>
  /\ images = [n \in {} |-> [w |-> R(0), h |-> R(0)]]
  /\ pdfErr = FALSE
  /\ result = "none"
  /\ IdleSpacing /\ IdlePixel /\ IdleCrop /\ IdleBatch /\ IdleWatch

\* pdf.AddPage(); addFooter() for the first page
StartFirstPage ==
  /\ pc = "start"
  /\ Adopt(addFooter(AddPage(Layout)))
  /\ pc' = "sets"
  /\ UNCHANGED <<spacing, imageOverride, gig, result,
               spacingVars, pixelVars, cropVars, batchVars, watchVars>>

\* the set loop reads the next set (the song loop of the set before it, if
\* any, has no more songs)
EnterSet ==
  /\ pc \in {"sets", "songs"}
  /\ Len(gig) < MaxSets
  /\ Adopt(setBoundary(Layout, Len(gig)))
  /\ gig' = Append(gig, <<>>)
  /\ pc' = "songs"
  /\ UNCHANGED <<spacing, imageOverride, result,
               spacingVars, pixelVars, cropVars, batchVars, watchVars>>

\* the song loop reads the next song of the set
ProcessSong ==
  /\ pc = "songs"
  /\ CountSongs(gig) < MaxEntries
  /\ \E songName \in Refs :
       /\ Adopt(songStep(Layout, spacing, imageOverride, songName, CountSongs(gig) + 1))
       /\ gig' = [gig EXCEPT ![Len(gig)] = Append(@, songName)]
  /\ UNCHANGED <<pc, spacing, imageOverride, result,
               spacingVars, pixelVars, cropVars, batchVars, watchVars>>

\* the loops have no more sets and songs: pdf.OutputFileAndClose(outputPath)
SavePDF ==
  /\ pc \in {"sets", "songs"}
  /\ pc' = "done"
  /\ \E written \in BOOLEAN :
       result' = IF written /\ ~pdfErr THEN "ok" ELSE "error"
  /\ UNCHANGED <<spacing, imageOverride, gig, currentY, pageNum, ops, images, pdfErr,
               spacingVars, pixelVars, cropVars, batchVars, watchVars>>

Next == StartFirstPage \/ EnterSet \/ ProcessSong \/ SavePDF

Spec == Init /\ [][Next]_vars

(***************************************************************************)
(* The same generation over gigs whose songs include images that do not    *)
(* decode (c.png: corrupt bytes; g.gif: a format the decoders of cropImage *)
(* do not know while gofpdf does) or that gofpdf cannot take (r.png).      *)
(***************************************************************************)
DecodeRefs == { <<"a">>, <<"c">>, <<"g">>, <<"r">>, <<"z">> }

ProcessSongDecode ==
  /\ pc = "songs"
  /\ CountSongs(gig) < MaxEntries
  /\ \E songName \in DecodeRefs :
       /\ Adopt(songStep(Layout, spacing, imageOverride, songName, CountSongs(gig) + 1))
       /\ gig' = [gig EXCEPT ![Len(gig)] = Append(@, songName)]
  /\ UNCHANGED <<pc, spacing, imageOverride, result,
               spacingVars, pixelVars, cropVars, batchVars, watchVars>>

NextDecode == StartFirstPage \/ EnterSet \/ ProcessSongDecode \/ SavePDF

SpecDecode == Init /\ [][NextDecode]_vars

(***************************************************************************)
(* The same generation over gigs whose references name image variants,     *)
(* with none, one or two '#', under each --image-override tried.           *)
(***************************************************************************)
VariantRefs ==
  { <<"a">>, <<"a", "#", "b", "i", "g">>, <<"a", "#", "x">>,
    <<"a", "#", "b", "i", "g", "#", "x">>, <<"n", "#", "a", "l", "t">> }

VariantOverrides == {<<>>, Big, Alt}

InitVariant ==
  /\ pc = "start"
  /\ spacing \in Spacings
  /\ imageOverride \in VariantOverrides
  /\ gig = <<>>
  /\ currentY = margin
  /\ pageNum = 0
  /\ ops = <<>>
  /\ images = [n \in {} |-> [w |-> R(0), h |-> R(0)]]
  /\ pdfErr = FALSE
  /\ result = "none"
  /\ IdleSpacing /\ IdlePixel /\ IdleCrop /\ IdleBatch /\ IdleWatch

ProcessSongVariant ==
  /\ pc = "songs"
  /\ CountSongs(gig) < MaxEntries
  /\ \E songName \in VariantRefs :
       /\ Adopt(songStep(Layout, spacing, imageOverride, songName, CountSongs(gig) + 1))
       /\ gig' = [gig EXCEPT ![Len(gig)] = Append(@, songName)]
  /\ UNCHANGED <<pc, spacing, imageOverride, result,
               spacingVars, pixelVars, cropVars, batchVars, watchVars>>

NextVariant == StartFirstPage \/ EnterSet \/ ProcessSongVariant \/ SavePDF

SpecVariant == InitVariant /\ [][NextVariant]_vars

(***************************************************************************)
(* The same generation over gigs whose songs include a scanned A4 page     *)
(* (t.png, 595 x 842 points with content up to its edges): scaled to the   *)
(* available width it is higher than the content area of a page.           *)
(***************************************************************************)
TallRefs == { <<"t">>, <<"a">>, <<"z">> }

ProcessSongTall ==
  /\ pc = "songs"
  /\ CountSongs(gig) < MaxEntries
  /\ \E songName \in TallRefs :
       /\ Adopt(songStep(Layout, spacing, imageOverride, songName, CountSongs(gig) + 1))
       /\ gig' = [gig EXCEPT ![Len(gig)] = Append(@, songName)]
  /\ UNCHANGED <<pc, spacing, imageOverride, result,
               spacingVars, pixelVars, cropVars, batchVars, watchVars>>

NextTall == StartFirstPage \/ EnterSet \/ ProcessSongTall \/ SavePDF

SpecTall == Init /\ [][NextTall]_vars

(***************************************************************************)
(* Documents generated one after the other by one process: the gig files   *)
(* of a batch and the all-songs document (generateAllGigs calls            *)
(* generatePDF for each), and the batches of the regenerations of watch    *)
(* mode.  attempts counts the documents finished.                          *)
(***************************************************************************)
\* a later generatePDF call that keeps counting pages where the document
\* before it stopped
NextDocumentKeepPageNum ==
  /\ pc = "done"
  /\ Len(attempts) < MaxDocs
  /\ attempts' = Append(attempts, [doc |-> Len(attempts) + 1])
  /\ pc' = "start"
  /\ spacing' \in Spacings
  /\ gig' = <<>>
  /\ currentY' = margin
  /\ pageNum' = pageNum
  /\ ops' = <<>>
  /\ images' = [n \in {} |-> [w |-> R(0), h |-> R(0)]]
  /\ pdfErr' = FALSE
  /\ result' = "none"
  /\ UNCHANGED <<imageOverride, batchPc, gigsDir, allSongs, gigFiles, batchErr,
                 spacingVars, pixelVars, cropVars, watchVars>>

\* generatePDF has returned and is called for the next document: the next
\* gig file of the batch, or a document of the next regeneration, which
\* loads the config and resolves the spacing again.  Its pdf, currentY and
\* pageNum are new locals; the flags stay as the command line set them.
NextDocument ==
  /\ pc = "done"
  /\ Len(attempts) < MaxDocs
  /\ attempts' = Append(attempts, [doc |-> Len(attempts) + 1])
  /\ pc' = "start"
  /\ spacing' \in Spacings
  /\ gig' = <<>>
  /\ currentY' = margin
  /\ pageNum' = 0
  /\ ops' = <<>>
  /\ images' = [n \in {} |-> [w |-> R(0), h |-> R(0)]]
  /\ pdfErr' = FALSE
  /\ result' = "none"
  /\ UNCHANGED <<imageOverride, batchPc, gigsDir, allSongs, gigFiles, batchErr,
                 spacingVars, pixelVars, cropVars, watchVars>>

NextRegen == StartFirstPage \/ EnterSet \/ ProcessSongTall \/ SavePDF \/ NextDocument

SpecRegen == Init /\ [][NextRegen]_vars

(***************************************************************************)
(* The spacing of a run: the --spacing flag (runGenerate) and the          *)
(* precedence of resolveSpacing.                                           *)
(***************************************************************************)
SpacingFlagDefault == -1
DefaultSpacing == 5

\* the --spacing arguments and the spacing keys of config.yaml tried
SpacingArgs == {<<>>} \cup {<<R(v)>> : v \in {-2, -1, 0, 3, 5, 7, 10}}
ConfigSpacings == {<<>>} \cup {<<R(v)>> : v \in {-1, 0, 4, 5}}

\* cmd.Flags().GetFloat64("spacing"): the argument, or the flag's default
GetFloat64(arg) == IF arg = <<>> THEN R(SpacingFlagDefault) ELSE arg[1]

\* the spacingFlag global after runGenerate (nil as constructed)
runGenerate(arg) ==
  LET spacingValue == GetFloat64(arg)
  IN  IF ~RLt(spacingValue, R(0)) THEN <<spacingValue>> ELSE <<>>

\* resolveSpacing with the config value ahead of the flag
resolveSpacingConfigFirst(flag, cfg) ==
  IF cfg # <<>> THEN cfg[1]
  ELSE IF flag # <<>> THEN flag[1]
  ELSE R(DefaultSpacing)

resolveSpacing(flag, cfg) ==
  IF flag # <<>> THEN flag[1]
  ELSE IF cfg # <<>> THEN cfg[1]
  ELSE R(DefaultSpacing)

InitSpacing ==
  /\ spacingPc = "args"
  /\ spacingArg \in SpacingArgs
  /\ configSpacing \in ConfigSpacings
  /\ spacingFlag = <<>>
  /\ resolved = <<>>
  /\ IdleLayout /\ IdlePixel /\ IdleCrop /\ IdleBatch /\ IdleWatch

RunGenerate ==
  /\ spacingPc = "args"
  /\ spacingFlag' = runGenerate(spacingArg)
  /\ spacingPc' = "flag"
  /\ UNCHANGED <<spacingArg, configSpacing, resolved,
                 layoutVars, pixelVars, cropVars, batchVars, watchVars>>

\* spacing := resolveSpacing(config) of generateAllGigs
ResolveSpacing ==
  /\ spacingPc = "flag"
  /\ resolved' = <<resolveSpacing(spacingFlag, configSpacing)>>
  /\ spacingPc' = "resolved"
  /\ UNCHANGED <<spacingArg, configSpacing, spacingFlag,
                 layoutVars, pixelVars, cropVars, batchVars, watchVars>>

NextSpacing == RunGenerate \/ ResolveSpacing

SpecSpacing == InitSpacing /\ [][NextSpacing]_vars

(***************************************************************************)
(* Colours.  A decoded image with an alpha channel holds its pixels as     *)
(* color.NRGBA: 8-bit red, green, blue not multiplied by the 8-bit alpha.  *)
(* The raster cropImage builds (image.NewRGBA) holds them as color.RGBA:   *)
(* 8-bit red, green, blue multiplied by alpha.                             *)
(***************************************************************************)
Threshold == 240

NRGBA(r, g, b, a) == [model |-> "NRGBA", r |-> r, g |-> g, b |-> b, a |-> a]

RGBAColor(r, g, b, a) == [model |-> "RGBA", r |-> r, g |-> g, b |-> b, a |-> a]

\* c.RGBA(): the alpha-premultiplied 16-bit channels of a colour
\* (NRGBA: r |= r << 8; r *= a; r /= 0xff.  RGBA: r |= r << 8)
RGBA(c) ==
  IF c.model = "NRGBA"
  THEN [r |-> ((c.r * 257) * c.a) \div 255,
        g |-> ((c.g * 257) * c.a) \div 255,
        b |-> ((c.b * 257) * c.a) \div 255,
        a |-> c.a * 257]
  ELSE [r |-> c.r * 257, g |-> c.g * 257, b |-> c.b * 257, a |-> c.a * 257]

\* uint8(v >> 8)
Uint8Shr8(v) == (v \div 256) % 256

isWhiteOrTransparent(c) ==
  LET rgba == RGBA(c)
  IN  IF rgba.a = 0 THEN TRUE
      ELSE LET r8 == Uint8Shr8(rgba.r)
               g8 == Uint8Shr8(rgba.g)
               b8 == Uint8Shr8(rgba.b)
           IN  r8 >= Threshold /\ g8 >= Threshold /\ b8 >= Threshold

\* the pixels classified
Channels == {0, 239, 240, 255}
Alphas == {0, 1, 128, 254, 255}
Pixels == {NRGBA(r, g, b, a) : r \in Channels, g \in Channels, b \in Channels, a \in Alphas}

InitPixel ==
  /\ pixel \in Pixels
  /\ classified = <<>>
  /\ IdleLayout /\ IdleSpacing /\ IdleCrop /\ IdleBatch /\ IdleWatch

Classify ==
  /\ classified = <<>>
  /\ classified' = <<isWhiteOrTransparent(pixel)>>
  /\ UNCHANGED <<pixel, layoutVars, spacingVars, cropVars, batchVars, watchVars>>

NextPixel == Classify

SpecPixel == InitPixel /\ [][NextPixel]_vars

(***************************************************************************)
(* Rasters and cropImage.  A decoded raster has bounds (0, 0)-(w, h).      *)
(***************************************************************************)
MaxSide == 3
MaxMarks == 2

Positions(w, h) == (0..(w - 1)) \X (0..(h - 1))

\* img.At(x, y)
At(image, x, y) == image.pix[<<x, y>>]

White == NRGBA(255, 255, 255, 255)

\* the pixels a raster may hold besides opaque white: opaque black, a partly
\* transparent colour, fully transparent
Marks == {NRGBA(0, 0, 0, 255), NRGBA(200, 100, 50, 128), NRGBA(0, 0, 0, 0)}

\* the inner loops of the four scans: does column x (row y) hold content
ColumnHasContent(image, x) ==
  \E y \in 0..(image.h - 1) : ~isWhiteOrTransparent(At(image, x, y))

RowHasContent(image, y) ==
  \E x \in 0..(image.w - 1) : ~isWhiteOrTransparent(At(image, x, y))

RECURSIVE ScanLeft(_, _)
ScanLeft(image, x) ==
  IF x >= image.w THEN 0
  ELSE IF ColumnHasContent(image, x) THEN x
  ELSE ScanLeft(image, x + 1)

\* findLeftMostContent answering the right edge for a raster without content
findLeftMostContentEnd(image) ==
  IF \E x \in 0..(image.w - 1) : ColumnHasContent(image, x)
  THEN ScanLeft(image, 0)
  ELSE image.w

findLeftMostContent(image) == ScanLeft(image, 0)

RECURSIVE ScanTop(_, _)
ScanTop(image, y) ==
  IF y >= image.h THEN 0
  ELSE IF RowHasContent(image, y) THEN y
  ELSE ScanTop(image, y + 1)

findTopMostContent(image) == ScanTop(image, 0)

RECURSIVE ScanBottom(_, _)
ScanBottom(image, y) ==
  IF y < 0 THEN image.h
  ELSE IF RowHasContent(image, y) THEN y + 1
  ELSE ScanBottom(image, y - 1)

findBottomMostContent(image) == ScanBottom(image, image.h - 1)

RECURSIVE ScanRight(_, _)
ScanRight(image, x) ==
  IF x < 0 THEN image.w
  ELSE IF ColumnHasContent(image, x) THEN x + 1
  ELSE ScanRight(image, x - 1)

\* findRightMostContent returning the last content column itself
findRightMostContentLast(image) ==
  LET r == ScanRight(image, image.w - 1)
  IN  IF r = image.w /\ ~ColumnHasContent(image, image.w - 1) THEN r ELSE r - 1

findRightMostContent(image) == ScanRight(image, image.w - 1)

\* the four bounds cropImage computes
Detect(image) ==
  [left   |-> findLeftMostContent(image),
   top    |-> findTopMostContent(image),
   bottom |-> findBottomMostContent(image),
   right  |-> findRightMostContent(image)]

\* a colour as an image.RGBA raster stores it: draw.Copy with draw.Src keeps
\* the high byte of each alpha-premultiplied channel
ToRGBA(c) ==
  LET rgba == RGBA(c)
  IN  RGBAColor(Uint8Shr8(rgba.r), Uint8Shr8(rgba.g), Uint8Shr8(rgba.b), Uint8Shr8(rgba.a))

\* cropImage copying the rectangle from the raster's origin
cropImageFromOrigin(image) ==
  LET b == Detect(image)
      croppedWidth == b.right - b.left
      croppedHeight == b.bottom - b.top
  IN  IF b.left <= 0 /\ b.top <= 0 /\ b.bottom >= image.h /\ b.right >= image.w
      THEN image
      ELSE IF croppedWidth <= 0 \/ croppedHeight <= 0
      THEN image
      ELSE [w |-> croppedWidth, h |-> croppedHeight,
            pix |-> [p \in Positions(croppedWidth, croppedHeight) |->
                       ToRGBA(At(image, p[1], p[2]))]]

\* cropImage keeping the detected top instead of the detected bottom
cropImageTopOnly(image) ==
  LET b == Detect(image)
      croppedWidth == b.right - b.left
      croppedHeight == image.h - b.top
  IN  IF b.left <= 0 /\ b.top <= 0 /\ b.bottom >= image.h /\ b.right >= image.w
      THEN image
      ELSE IF croppedWidth <= 0 \/ croppedHeight <= 0
      THEN image
      ELSE [w |-> croppedWidth, h |-> croppedHeight,
            pix |-> [p \in Positions(croppedWidth, croppedHeight) |->
                       ToRGBA(At(image, b.left + p[1], b.top + p[2]))]]

\* cropImage from the bounds to the returned raster
cropImage(image) ==
  LET b == Detect(image)
      croppedWidth == b.right - b.left
      croppedHeight == b.bottom - b.top
  IN  IF b.left <= 0 /\ b.top <= 0 /\ b.bottom >= image.h /\ b.right >= image.w
      THEN image
      ELSE IF croppedWidth <= 0 \/ croppedHeight <= 0
      THEN image
      ELSE [w |-> croppedWidth, h |-> croppedHeight,
            pix |-> [p \in Positions(croppedWidth, croppedHeight) |->
                       ToRGBA(At(image, b.left + p[1], b.top + p[2]))]]

\* a decoded raster: white but for at most MaxMarks pixels
InitCrop ==
  /\ \E w \in 1..MaxSide, h \in 1..MaxSide :
       \E marked \in {m \in SUBSET Positions(w, h) : Cardinality(m) <= MaxMarks} :
         \E f \in [marked -> Marks] :
           img = [w |-> w, h |-> h,
                  pix |-> [p \in Positions(w, h) |-> IF p \in marked THEN f[p] ELSE White]]
  /\ detected = <<>>
  /\ croppedImg = <<>>
  /\ redetected = <<>>
  /\ IdleLayout /\ IdleSpacing /\ IdlePixel /\ IdleBatch /\ IdleWatch

\* cropImage on the decoded raster
CropImage ==
  /\ croppedImg = <<>>
  /\ detected' = <<Detect(img)>>
  /\ croppedImg' = <<cropImage(img)>>
  /\ UNCHANGED <<img, redetected, layoutVars, spacingVars, pixelVars, batchVars, watchVars>>

\* the four scans on the raster cropImage returned
DetectAgain ==
  /\ croppedImg # <<>>
  /\ redetected = <<>>
  /\ redetected' = <<Detect(croppedImg[1])>>
  /\ UNCHANGED <<img, detected, croppedImg, layoutVars, spacingVars, pixelVars, batchVars, watchVars>>

NextCrop == CropImage \/ DetectAgain

SpecCrop == InitCrop /\ [][NextCrop]_vars

(***************************************************************************)
(* generateAllGigs: the batch over the files of the gigs folder.  File     *)
(* names are sequences of characters, ordered as Go orders strings (by     *)
(* byte value).                                                            *)
(***************************************************************************)
\* the byte value of a character
Byte(c) ==
  CASE c = "." -> 46
    [] c = "_" -> 95
    [] c = "a" -> 97
    [] c = "b" -> 98
    [] c = "c" -> 99
    [] c = "d" -> 100
    [] c = "f" -> 102
    [] c = "l" -> 108
    [] c = "m" -> 109
    [] c = "n" -> 110
    [] c = "p" -> 112
    [] c = "t" -> 116
    [] c = "x" -> 120
    [] c = "y" -> 121

\* s < t for Go strings
RECURSIVE StrLess(_, _)
StrLess(s, t) ==
  IF t = <<>> THEN FALSE
  ELSE IF s = <<>> THEN TRUE
  ELSE IF Head(s) # Head(t) THEN Byte(Head(s)) < Byte(Head(t))
  ELSE StrLess(Tail(s), Tail(t))

HasSuffix(s, suffix) ==
  /\ Len(s) >= Len(suffix)
  /\ SubSeq(s, Len(s) - Len(suffix) + 1, Len(s)) = suffix

Yaml == <<".", "y", "a", "m", "l">>
Yml == <<".", "y", "m", "l">>
Pdf == <<".", "p", "d", "f">>

\* the names the gigs folder may hold
GigNames ==
  { <<"a">> \o Yaml, <<"c">> \o Yaml, <<"a">> \o Yml, <<"b">> \o Yml,
    <<"n", ".", "t", "x", "t">> }

\* sort.Strings: the names of a set in increasing order
RECURSIVE SortStrings(_)
SortStrings(names) ==
  IF names = {} THEN <<>>
  ELSE LET least == CHOOSE n \in names : \A m \in names \ {n} : StrLess(n, m)
       IN  <<least>> \o SortStrings(names \ {least})

\* the names of a set in decreasing order
RECURSIVE SortStringsDown(_)
SortStringsDown(names) ==
  IF names = {} THEN <<>>
  ELSE LET most == CHOOSE n \in names : \A m \in names \ {n} : StrLess(m, n)
       IN  <<most>> \o SortStringsDown(names \ {most})

\* filepath.Glob returning the matches in decreasing order
GlobDown(dir, suffix) == SortStringsDown({n \in dir : HasSuffix(n, suffix)})

\* filepath.Glob(filepath.Join(gigsDir, "*" + suffix)): the matching names of
\* the folder, sorted
Glob(dir, suffix) == SortStrings({n \in dir : HasSuffix(n, suffix)})

\* filepath.Ext: the text from the last dot on
RECURSIVE Ext(_)
Ext(name) ==
  IF name = <<>> THEN <<>>
  ELSE IF name[Len(name)] = "." THEN <<".">>
  ELSE LET e == Ext(SubSeq(name, 1, Len(name) - 1))
       IN  IF e = <<>> THEN <<>> ELSE e \o <<name[Len(name)]>>

\* strings.TrimSuffix(gigBasename, filepath.Ext(gigBasename)) + ".pdf"
OutputFileOf(gigFile) == SubSeq(gigFile, 1, Len(gigFile) - Len(Ext(gigFile))) \o Pdf

\* "_all.pdf" (no image override)
AllSongsFile == <<"_", "a", "l", "l">> \o Pdf

\* what can happen to one gig file: loadGig fails, generatePDF fails, or the
\* PDF is written
GigOutcomes == {"loadError", "pdfError", "ok"}

InitBatch ==
  /\ batchPc = "start"
  /\ gigsDir \in SUBSET GigNames
  /\ allSongs \in BOOLEAN
  /\ gigFiles = <<>>
  /\ attempts = <<>>
  /\ batchErr = "none"
  /\ IdleLayout /\ IdleSpacing /\ IdlePixel /\ IdleCrop /\ IdleWatch

\* generateAllGigs up to the loop: loadConfig, MkdirAll and the two Globs
\* (each may fail and end the batch), gigFiles, the return when it is empty
ListGigFiles ==
  /\ batchPc = "start"
  /\ \E setupOk \in BOOLEAN :
       IF ~setupOk
       THEN /\ batchPc' = "returned"
            /\ batchErr' = "error"
            /\ gigFiles' = gigFiles
       ELSE LET yamlFiles == Glob(gigsDir, Yaml)
                ymlFiles == Glob(gigsDir, Yml)
            IN  /\ gigFiles' = yamlFiles \o ymlFiles
                /\ IF Len(gigFiles') = 0
                   THEN batchPc' = "returned" /\ batchErr' = "nil"
                   ELSE batchPc' = "loop" /\ batchErr' = batchErr
  /\ UNCHANGED <<gigsDir, allSongs, attempts,
                 layoutVars, spacingVars, pixelVars, cropVars, watchVars>>

\* the batch given up at the first gig file that fails
AfterGigStopOnError(i, outcome) ==
  IF outcome # "ok" THEN "returned"
  ELSE IF i < Len(gigFiles) THEN "loop"
  ELSE IF allSongs THEN "all"
  ELSE "returned"

\* where generateAllGigs goes after the gig file at index i
AfterGig(i, outcome) ==
  IF i < Len(gigFiles) THEN "loop"
  ELSE IF allSongs THEN "all"
  ELSE "returned"

\* one iteration of the loop over gigFiles
ProcessGig ==
  /\ batchPc = "loop"
  /\ \E outcome \in GigOutcomes :
       LET i == Len(attempts) + 1
           gigFile == gigFiles[i]
       IN  /\ attempts' = Append(attempts,
                                 [doc |-> gigFile, outcome |-> outcome,
                                  outputFile |-> OutputFileOf(gigFile)])
           /\ batchPc' = AfterGig(i, outcome)
           /\ batchErr' = IF batchPc' = "returned" THEN "nil" ELSE batchErr
  /\ UNCHANGED <<gigsDir, allSongs, gigFiles,
                 layoutVars, spacingVars, pixelVars, cropVars, watchVars>>

\* the all-songs document, then return nil
GenerateAllSongs ==
  /\ batchPc = "all"
  /\ \E outcome \in {"pdfError", "ok"} :
       attempts' = Append(attempts,
                          [doc |-> <<"c", "o", "n", "f", "i", "g">>, outcome |-> outcome,
                           outputFile |-> AllSongsFile])
  /\ batchPc' = "returned"
  /\ batchErr' = "nil"
  /\ UNCHANGED <<gigsDir, allSongs, gigFiles,
                 layoutVars, spacingVars, pixelVars, cropVars, watchVars>>

NextBatch == ListGigFiles \/ ProcessGig \/ GenerateAllSongs

SpecBatch == InitBatch /\ [][NextBatch]_vars

(***************************************************************************)
(* The event loop of runGenerateWatch.  Time is in milliseconds and moves  *)
(* in steps of 100; a timer runs its function at its deadline, before      *)
(* anything else happens at that time (scheduling delays are not           *)
(* modelled).  An event is handled at the time it arrives.                 *)
(***************************************************************************)
debounceDuration == 500

MaxEvents == 3
MaxTime == 1000

\* event.Op, a set of fsnotify operations
EventOps == {{"Write"}, {"Create"}, {"Chmod"}}

\* the test of the event loop passing write events only
IsWriteOnly(op) == "Write" \in op

\* event.Op&fsnotify.Write == fsnotify.Write || event.Op&fsnotify.Create == fsnotify.Create
IsWriteOrCreate(op) == "Write" \in op \/ "Create" \in op

\* the handler leaving the timer before it running
StopNothing(ts, dt) == ts

\* if debounceTimer != nil { debounceTimer.Stop() }: the timers still to run
StopTimer(ts, dt) == IF dt # <<>> THEN ts \ {dt[1]} ELSE ts

\* time.AfterFunc(debounceDuration, ...): the deadline of the new timer
AfterFunc(t) == t + debounceDuration

InitWatch ==
  /\ watching = TRUE
  /\ now = 0
  /\ timers = {}
  /\ debounceTimer = <<>>
  /\ events = <<>>
  /\ regens = <<>>
  /\ running = 0
  /\ IdleLayout /\ IdleSpacing /\ IdlePixel /\ IdleCrop /\ IdleBatch

\* case event, ok := <-watcher.Events
HandleEvent ==
  /\ watching
  /\ Len(events) < MaxEvents
  /\ now <= MaxTime
  /\ \A d \in timers : d > now
  /\ \E op \in EventOps :
       /\ events' = Append(events, [at |-> now, op |-> op])
       /\ IF IsWriteOrCreate(op)
          THEN /\ timers' = StopTimer(timers, debounceTimer) \cup {AfterFunc(now)}
               /\ debounceTimer' = <<AfterFunc(now)>>
          ELSE UNCHANGED <<timers, debounceTimer>>
  /\ UNCHANGED <<watching, now, regens, running,
                 layoutVars, spacingVars, pixelVars, cropVars, batchVars>>

\* a timer reaches its deadline: its function, run in a goroutine of its
\* own, starts generateAllGigs
FireTimer ==
  /\ \E d \in timers :
       /\ d = now
       /\ timers' = timers \ {d}
       /\ regens' = Append(regens, now)
       /\ running' = running + 1
  /\ UNCHANGED <<watching, now, debounceTimer, events,
                 layoutVars, spacingVars, pixelVars, cropVars, batchVars>>

\* a generateAllGigs call started by a timer returns, however long it took
FinishRegeneration ==
  /\ running > 0
  /\ running' = running - 1
  /\ UNCHANGED <<watching, now, timers, debounceTimer, events, regens,
                 layoutVars, spacingVars, pixelVars, cropVars, batchVars>>

\* time passes, no timer being due; events arrive up to MaxTime, and time
\* goes on after it for as long as a timer is pending
Tick ==
  /\ \A d \in timers : d > now
  /\ now + 100 <= MaxTime \/ timers # {}
  /\ now' = now + 100
  /\ UNCHANGED <<watching, timers, debounceTimer, events, regens, running,
                 layoutVars, spacingVars, pixelVars, cropVars, batchVars>>

NextWatch == HandleEvent \/ FireTimer \/ FinishRegeneration \/ Tick

SpecWatch == InitWatch /\ [][NextWatch]_vars

\* the same with time passing and due timers running their function
SpecWatchLive ==
  /\ InitWatch
  /\ [][NextWatch]_vars
  /\ WF_vars(Tick) /\ WF_vars(FireTimer)

(***************************************************************************)
(* Vocabulary of the properties.                                           *)
(***************************************************************************)
IsBlock(o) == o.op \in {"PlaceImage", "PlaceError"}

BlockHeight(o) == IF o.op = "PlaceImage" THEN o.h ELSE R(10)

IsFooter(o) == o.op = "Footer"

\* the footers written and the blocks placed so far, in the order of the calls
Footers == SelectSeq(ops, IsFooter)

Blocks == SelectSeq(ops, IsBlock)

Last(seq) == seq[Len(seq)]

\* pageHeight - footerHeight - margin: where remaining space is measured from
ContentBottom == RSub(RSub(R(297), R(15)), R(10))

\* the songs of the gig in reading order
RECURSIVE Flatten(_)
Flatten(sets) == IF sets = <<>> THEN <<>> ELSE Head(sets) \o Flatten(Tail(sets))

Entries == Flatten(gig)

BlocksOf(k) == {i \in 1..Len(ops) : IsBlock(ops[i]) /\ ops[i].entry = k}

PageBreak == <<[op |-> "StartPage"], [op |-> "Footer", page |-> pageNum + 1]>>

\* the step just taken read songName as the next song of the current set
ReadsSong(songName) ==
  /\ pc = "songs"
  /\ gig' = [gig EXCEPT ![Len(gig)] = Append(@, songName)]

\* the text of a reference before its first '#', and after it
RECURSIVE BeforeHash(_)
BeforeHash(s) ==
  IF s = <<>> \/ Head(s) = "#" THEN <<>> ELSE <<Head(s)>> \o BeforeHash(Tail(s))

HasHash(s) == \E i \in 1..Len(s) : s[i] = "#"

AfterHash(s) == SubSeq(s, Len(BeforeHash(s)) + 2, Len(s))

VariantOf(s) == IF HasHash(s) THEN AfterHash(s) ELSE Default

\* the image names config.yaml defines for a nickname
VariantsOf(nick) ==
  UNION { (IF ConfigSongs[i].image # "" THEN {Default} ELSE {}) \cup DOMAIN ConfigSongs[i].images :
          i \in {j \in 1..Len(ConfigSongs) : ConfigSongs[j].nickname = nick} }

Nicknames == {ConfigSongs[i].nickname : i \in 1..Len(ConfigSongs)}

UnknownSong(s) == BeforeHash(s) \notin Nicknames

UnknownVariant(s) == ~UnknownSong(s) /\ VariantOf(s) \notin VariantsOf(BeforeHash(s))

OverrideApplies(s) ==
  imageOverride # <<>> /\ ~UnknownSong(s) /\ imageOverride \in VariantsOf(BeforeHash(s))

\* the message of the error block for an unresolvable reference
UnresolvedText(s) ==
  IF UnknownSong(s) THEN [kind |-> "NoSong", song |-> BeforeHash(s)]
  ELSE [kind |-> "NoImage", image |-> VariantOf(s), song |-> BeforeHash(s)]

\* the step just taken laid out an error block of height 10 for entry k
ErrorBlockLaidOut(k, text) ==
  LET broke == RLt(RSub(ContentBottom, currentY), RAdd(R(10), spacing))
      y == IF broke THEN R(10) ELSE currentY
  IN  /\ ops' = ops \o (IF broke THEN PageBreak ELSE <<>>)
                    \o <<[op |-> "PlaceError", entry |-> k, x |-> R(10), y |-> y,
                          text |-> text]>>
      /\ currentY' = RAdd(y, RAdd(R(10), spacing))
      /\ pageNum' = IF broke THEN pageNum + 1 ELSE pageNum

(***************************************************************************)
(* C1: the pages started are numbered 1, 2, 3, ... without gap or repeat;  *)
(* every page start is immediately followed by exactly one footer carrying *)
(* that page's number, and no block is placed before the first page start. *)
(***************************************************************************)
C1_PagesNumbered ==
  LET footers == Footers
  IN  /\ pc # "start" => Len(ops) >= 2 /\ ops[1].op = "StartPage"
      /\ \A i \in 1..Len(ops) :
           /\ ops[i].op = "StartPage" => i < Len(ops) /\ ops[i + 1].op = "Footer"
           /\ ops[i].op = "Footer" => i > 1 /\ ops[i - 1].op = "StartPage"
      /\ \A n \in 1..Len(footers) : footers[n].page = n

\* three pages, the third one started for a block
C1_Witness ==
  /\ Len(ops) >= 3
  /\ IsBlock(ops[Len(ops)])
  /\ ops[Len(ops) - 1] = [op |-> "Footer", page |-> 3]

(***************************************************************************)
(* C2: on entering a set other than the first, a new page is started and   *)
(* the cursor reset to the top margin if and only if the cursor is past    *)
(* the top margin; with the cursor at the top margin nothing is emitted.   *)
(***************************************************************************)
C2_SetBoundary ==
  [][ (Len(gig') = Len(gig) + 1 /\ Len(gig) > 0) =>
        IF RGt(currentY, R(10))
        THEN ops' = ops \o PageBreak /\ currentY' = R(10) /\ pageNum' = pageNum + 1
        ELSE ops' = ops /\ currentY' = currentY /\ pageNum' = pageNum ]_vars

\* the second set is entered on the still empty first page, after a first
\* set that held a song
C2_Witness ==
  /\ pc = "songs"
  /\ Len(gig) = 2
  /\ gig[1] # <<>>
  /\ gig[2] = <<>>
  /\ currentY = R(10)
  /\ pageNum = 1

(***************************************************************************)
(* C3: a block (image or error) is preceded by a page break exactly when   *)
(* remaining < blockHeight + spacing, remaining = pageHeight - footerHeight*)
(* - margin - cursor; with remaining = blockHeight + spacing it stays on   *)
(* the current page.                                                       *)
(***************************************************************************)
C3_StrictBreak ==
  [][ (pc = "songs" /\ Len(gig') = Len(gig) /\ Len(ops') > Len(ops)) =>
        LET b == ops'[Len(ops')]
            remaining == RSub(ContentBottom, currentY)
            needed == RAdd(BlockHeight(b), spacing)
        IN  /\ IsBlock(b)
            /\ RLt(remaining, needed) => ops' = ops \o PageBreak \o <<b>>
            /\ ~RLt(remaining, needed) => ops' = ops \o <<b>> ]_vars

\* an image that fits exactly was placed below another block of its page
C3_Witness ==
  \E i \in 2..Len(ops) :
    /\ ops[i].op = "PlaceImage"
    /\ IsBlock(ops[i - 1])
    /\ RAdd(ops[i].y, RAdd(ops[i].h, spacing)) = ContentBottom

(***************************************************************************)
(* C4: an image whose natural width (in mm) is at most the available width *)
(* is displayed at its natural size; a wider one is displayed exactly as   *)
(* wide as the available width with its aspect ratio kept; the displayed   *)
(* width never exceeds the natural width.  Stated of the image placed      *)
(* last: every image block is the last call when it is placed.             *)
(***************************************************************************)
Factor == RNorm(352778, 1000000)

C4_Scaling ==
  (ops # <<>> /\ Last(ops).op = "PlaceImage") =>
    LET b == Last(ops)
        nw == RMul(images[b.image].w, Factor)
        nh == RMul(images[b.image].h, Factor)
        avail == RSub(R(210), R(20))
    IN  /\ RLe(nw, avail) => b.w = nw /\ b.h = nh
        /\ RGt(nw, avail) => b.w = avail /\ RMul(b.h, nw) = RMul(nh, b.w)
        /\ RLe(b.w, nw)

\* a scaled image, and an unscaled one exactly as wide as the available width
C4_Witness ==
  /\ \E i \in 1..Len(ops) :
       /\ ops[i].op = "PlaceImage"
       /\ RGt(PtToMm(images[ops[i].image].w), R(190))
       /\ ops[i].w = R(190)
  /\ \E i \in 1..Len(ops) :
       /\ ops[i].op = "PlaceImage"
       /\ PtToMm(images[ops[i].image].w) = R(190)

(***************************************************************************)
(* C5: an image block is placed at (margin, cursor): at the top margin     *)
(* when it is the first block of a page, right below the previous block    *)
(* plus spacing otherwise; after it the cursor is its top plus its height  *)
(* plus spacing.                                                           *)
(***************************************************************************)
C5_ImagePlacement ==
  \A i \in 1..Len(ops) :
    ops[i].op = "PlaceImage" =>
      /\ i > 1
      /\ ops[i].x = R(10)
      /\ ops[i - 1].op = "Footer" => ops[i].y = R(10)
      /\ IsBlock(ops[i - 1]) =>
           ops[i].y = RAdd(ops[i - 1].y, RAdd(BlockHeight(ops[i - 1]), spacing))
      /\ i = Len(ops) => currentY = RAdd(ops[i].y, RAdd(ops[i].h, spacing))
      /\ (i < Len(ops) /\ IsBlock(ops[i + 1])) =>
           ops[i + 1].y = RAdd(ops[i].y, RAdd(ops[i].h, spacing))

\* an image below another block, and an image first on a later page
C5_Witness ==
  /\ spacing = R(5)
  /\ \E i \in 2..Len(ops) : ops[i].op = "PlaceImage" /\ IsBlock(ops[i - 1])
  /\ \E i \in 4..Len(ops) : ops[i].op = "PlaceImage" /\ ops[i - 1].op = "Footer"

(***************************************************************************)
(* C6: an error block is placed at (margin, cursor) like an image of       *)
(* height 10, whatever its message: the cursor after it is its top plus    *)
(* 10 plus spacing, and it stays on the page of the block above it only    *)
(* when 10 + spacing fits below the cursor.                                *)
(***************************************************************************)
C6_ErrorPlacement ==
  \A i \in 1..Len(ops) :
    ops[i].op = "PlaceError" =>
      /\ i > 1
      /\ ops[i].x = R(10)
      /\ ops[i - 1].op = "Footer" => ops[i].y = R(10)
      /\ IsBlock(ops[i - 1]) =>
           /\ ops[i].y = RAdd(ops[i - 1].y, RAdd(BlockHeight(ops[i - 1]), spacing))
           /\ RLe(RAdd(ops[i].y, RAdd(R(10), spacing)), ContentBottom)
      /\ i = Len(ops) => currentY = RAdd(ops[i].y, RAdd(R(10), spacing))
      /\ (i < Len(ops) /\ IsBlock(ops[i + 1])) =>
           ops[i + 1].y = RAdd(ops[i].y, RAdd(R(10), spacing))

\* error blocks of different messages, one of which fits exactly
C6_Witness ==
  /\ \E i \in 2..Len(ops) :
       /\ ops[i].op = "PlaceError"
       /\ IsBlock(ops[i - 1])
       /\ RAdd(ops[i].y, RAdd(R(10), spacing)) = ContentBottom
  /\ \E i, j \in 1..Len(ops) :
       /\ ops[i].op = "PlaceError"
       /\ ops[j].op = "PlaceError"
       /\ ops[i].text.kind # ops[j].text.kind

(***************************************************************************)
(* C7: the blocks appear in the order of the gig's entries: a block of an  *)
(* earlier entry is emitted before a block of a later entry (and so, pages *)
(* being started in the same sequence of calls, on no later page); each    *)
(* block shows the entry it is numbered for.                               *)
(***************************************************************************)
C7_EntryOrder ==
  LET blocks == Blocks
      entries == Entries
  IN  /\ \A n \in 1..Len(blocks) - 1 : blocks[n].entry < blocks[n + 1].entry
      /\ \A n \in 1..Len(blocks) :
           LET b == blocks[n]
           IN  /\ b.entry \in 1..Len(entries)
               /\ b.op = "PlaceError" /\ b.text.kind # "NotFound" =>
                    b.text.song = BeforeHash(entries[b.entry])
               /\ b.op = "PlaceImage" /\ b.image[1] = "cropped" =>
                    b.image[2] = entries[b.entry]

\* an image, an error and an image on two pages
C7_Witness ==
  /\ Len(ops) >= 7
  /\ pageNum = 2
  /\ \E i, j, k \in 1..Len(ops) :
       /\ i < j /\ j < k
       /\ ops[i].op = "PlaceImage"
       /\ ops[j].op = "PlaceError"
       /\ ops[k].op = "PlaceImage"

(***************************************************************************)
(* C8: every song entry read so far has exactly one visible block, an      *)
(* image or an error message.                                              *)
(***************************************************************************)
C8_EveryEntryVisible ==
  \A k \in 1..Len(Entries) : Cardinality(BlocksOf(k)) = 1

(***************************************************************************)
(* C9: a reference whose nickname is not in the config, or whose variant   *)
(* (after '#', or "default") is not defined for the song, is laid out as   *)
(* an error block of height 10 naming the song (and variant) at its place  *)
(* in the sequence, and generation goes on.                                *)
(***************************************************************************)
C9_UnresolvedIsError ==
  [][ \A s \in Refs :
        (ReadsSong(s) /\ (UnknownSong(s) \/ UnknownVariant(s))) =>
          /\ ErrorBlockLaidOut(Len(Entries) + 1, UnresolvedText(s))
          /\ pc' = "songs" /\ result' = result /\ pdfErr' = pdfErr ]_vars

(***************************************************************************)
(* C9 amended: the same, for a reference to which no image override        *)
(* applies (no override given, or the song does not define the override).  *)
(***************************************************************************)
C9_UnresolvedIsErrorNoOverride ==
  [][ \A s \in Refs :
        (ReadsSong(s) /\ (UnknownSong(s) \/ UnknownVariant(s)) /\ ~OverrideApplies(s)) =>
          /\ ErrorBlockLaidOut(Len(Entries) + 1, UnresolvedText(s))
          /\ pc' = "songs" /\ result' = result /\ pdfErr' = pdfErr ]_vars

\* an unknown song and an unknown variant were laid out as error blocks and
\* an image was placed below them
C9_Witness ==
  /\ Len(ops) = 5
  /\ ops[3].op = "PlaceError" /\ ops[3].text.kind = "NoSong"
  /\ ops[4].op = "PlaceError" /\ ops[4].text.kind = "NoImage"
  /\ ops[5].op = "PlaceImage"
  /\ ops[5].y = RAdd(R(10), RMul(R(2), RAdd(R(10), spacing)))

(***************************************************************************)
(* C10: an entry whose resolved image file is missing, or exists but       *)
(* cannot be read, has an error block at its place.                        *)
(***************************************************************************)
ResolvedPath(s) ==
  LET imageMap == songMap[BeforeHash(s)]
  IN  imageMap[imageNameOf(imageMap, Split(s), imageOverride)]

Resolves(s) ==
  /\ BeforeHash(s) \in DOMAIN songMap
  /\ imageNameOf(songMap[BeforeHash(s)], Split(s), imageOverride)
       \in DOMAIN songMap[BeforeHash(s)]

C10_MissingOrUnreadableIsError ==
  \A k \in 1..Len(Entries) :
    (/\ Resolves(Entries[k])
     /\ \/ ResolvedPath(Entries[k]) \notin DOMAIN Files
        \/ ~Files[ResolvedPath(Entries[k])].readable) =>
      \E i \in BlocksOf(k) : ops[i].op = "PlaceError"

(***************************************************************************)
(* C11: an entry whose resolved image file exists and opens but does not   *)
(* decode has an error block at its place, and the failure leaves no error *)
(* on the PDF object (the document can still be written).                  *)
(***************************************************************************)
Undecodable(s) ==
  /\ Resolves(s)
  /\ ResolvedPath(s) \in DOMAIN Files
  /\ Files[ResolvedPath(s)].readable
  /\ ~Files[ResolvedPath(s)].decodable

C11_UndecodableIsError ==
  \A k \in 1..Len(Entries) :
    Undecodable(Entries[k]) =>
      /\ \E i \in BlocksOf(k) : ops[i].op = "PlaceError"
      /\ ~pdfErr

(***************************************************************************)
(* C12: the spacing of a pass is the --spacing value if one was given      *)
(* (0 included), else the spacing of the config file if it has one (0      *)
(* included), else 5.0.                                                    *)
(***************************************************************************)
C12_SpacingPrecedence ==
  spacingPc = "resolved" =>
    resolved[1] = IF spacingArg # <<>> THEN spacingArg[1]
                  ELSE IF configSpacing # <<>> THEN configSpacing[1]
                  ELSE R(5)

(***************************************************************************)
(* C12 amended: the same, a --spacing value below 0 counting as not given. *)
(***************************************************************************)
C12_SpacingPrecedenceNonNegative ==
  spacingPc = "resolved" =>
    resolved[1] = IF spacingArg # <<>> /\ ~RLt(spacingArg[1], R(0)) THEN spacingArg[1]
                  ELSE IF configSpacing # <<>> THEN configSpacing[1]
                  ELSE R(5)

\* --spacing 0 was given with a config file that says 4, and 0 was used
C12_Witness ==
  /\ spacingPc = "resolved"
  /\ spacingArg = <<R(0)>>
  /\ configSpacing = <<R(4)>>
  /\ resolved = <<R(0)>>

(***************************************************************************)
(* C13: a pixel is classified background if and only if its alpha is 0 or  *)
(* each of its stored 8-bit red, green and blue values (not multiplied by  *)
(* alpha) is at least 240.                                                 *)
(***************************************************************************)
C13_BackgroundByRawChannels ==
  classified # <<>> =>
    (classified[1] <=>
       (pixel.a = 0 \/ (pixel.r >= 240 /\ pixel.g >= 240 /\ pixel.b >= 240)))

(***************************************************************************)
(* C14: for a raster with a foreground pixel the detected bounds are the   *)
(* tightest rectangle around the foreground pixels: left = least column,   *)
(* top = least row, right = greatest column + 1, bottom = greatest row + 1,*)
(* however the pixels are arranged; with no foreground pixel the bounds    *)
(* are the edges of the raster.                                            *)
(***************************************************************************)
Foreground(image) == {p \in DOMAIN image.pix : ~isWhiteOrTransparent(image.pix[p])}

C14_TightestBounds ==
  detected # <<>> =>
    LET fg == Foreground(img)
        b == detected[1]
    IN  IF fg # {}
        THEN /\ \E p \in fg : p[1] = b.left
             /\ \E p \in fg : p[2] = b.top
             /\ \E p \in fg : p[1] + 1 = b.right
             /\ \E p \in fg : p[2] + 1 = b.bottom
             /\ \A p \in fg : /\ b.left <= p[1] /\ p[1] < b.right
                               /\ b.top <= p[2] /\ p[2] < b.bottom
        ELSE b = [left |-> 0, top |-> 0, bottom |-> img.h, right |-> img.w]

\* two foreground pixels on a diagonal, away from all four edges but one
C14_Witness ==
  /\ detected # <<>>
  /\ img.w = 3 /\ img.h = 3
  /\ Foreground(img) = {<<1, 1>>, <<2, 2>>}
  /\ detected[1] = [left |-> 1, top |-> 1, bottom |-> 3, right |-> 3]

(***************************************************************************)
(* C15: the detector run on the raster cropImage returned finds that       *)
(* raster's full extent (no crop needed); when the source has a foreground *)
(* pixel, every border row and border column of the returned raster holds  *)
(* a foreground pixel.                                                     *)
(***************************************************************************)
FullExtent(image) == [left |-> 0, top |-> 0, bottom |-> image.h, right |-> image.w]

SameColour(c, d) == RGBA(c) = RGBA(d)

ProperCrop(b, image) ==
  /\ b.right > b.left /\ b.bottom > b.top
  /\ b # FullExtent(image)

NoCropNeeded(path) ==
  /\ path \in DOMAIN Files
  /\ Files[path].readable /\ Files[path].decodable
  /\ Files[path].w = Files[path].ow /\ Files[path].h = Files[path].oh

C17_NoCropEmbedsOriginal ==
  \A i \in 1..Len(ops) :
    (/\ ops[i].op = "PlaceImage"
     /\ Resolves(Entries[ops[i].entry])
     /\ NoCropNeeded(ResolvedPath(Entries[ops[i].entry]))) =>
      ops[i].image = <<"file", ResolvedPath(Entries[ops[i].entry])>>

(***************************************************************************)
(* C18: a gig file that fails to load or whose PDF fails does not stop the *)
(* batch: the gig files are attempted one after the other whatever the     *)
(* outcomes, the all-songs document is attempted after them when asked     *)
(* for, and generateAllGigs then returns nil; it returns an error only     *)
(* before any document was attempted.                                      *)
(***************************************************************************)
GigAttempts == SelectSeq(attempts, LAMBDA a : a.outputFile # AllSongsFile)

C18_FailureIsolated ==
  /\ Len(GigAttempts) <= Len(gigFiles)
  /\ \A i \in 1..Len(GigAttempts) : GigAttempts[i].doc = gigFiles[i]
  /\ batchErr = "error" => attempts = <<>>
  /\ (batchPc = "returned" /\ batchErr = "nil" /\ gigFiles # <<>>) =>
       /\ Len(GigAttempts) = Len(gigFiles)
       /\ allSongs => (Len(attempts) = Len(gigFiles) + 1
                        /\ attempts[Len(attempts)].outputFile = AllSongsFile)
       /\ ~allSongs => Len(attempts) = Len(gigFiles)

\* a batch returned nil after a gig that did not load, a gig whose PDF
\* failed, a gig that was written, and the all-songs document
C18_Witness ==
  /\ batchPc = "returned" /\ batchErr = "nil"
  /\ Len(attempts) = 4
  /\ attempts[1].outcome = "loadError"
  /\ attempts[2].outcome = "pdfError"
  /\ attempts[3].outcome = "ok"
  /\ attempts[4].outputFile = AllSongsFile

(***************************************************************************)
(* C19: the gig files (.yaml and .yml) are processed in lexicographic      *)
(* order of filename over the whole batch.                                 *)
(***************************************************************************)
C19_LexicographicOrder ==
  LET g == GigAttempts
  IN  /\ \A i \in 1..Len(g) : HasSuffix(g[i].doc, Yaml) \/ HasSuffix(g[i].doc, Yml)
      /\ \A i, j \in 1..Len(g) : i < j => StrLess(g[i].doc, g[j].doc)

(***************************************************************************)
(* C19 amended: the .yaml files in lexicographic order of filename, then   *)
(* the .yml files in lexicographic order of filename.                      *)
(***************************************************************************)
C19_YamlThenYmlOrder ==
  LET g == GigAttempts
  IN  /\ \A i \in 1..Len(g) : HasSuffix(g[i].doc, Yaml) \/ HasSuffix(g[i].doc, Yml)
      /\ \A i, j \in 1..Len(g) :
           i < j =>
             \/ HasSuffix(g[i].doc, Yaml) /\ HasSuffix(g[j].doc, Yml)
             \/ /\ HasSuffix(g[i].doc, Yaml) <=> HasSuffix(g[j].doc, Yaml)
                /\ StrLess(g[i].doc, g[j].doc)
      /\ batchPc \in {"loop", "all"} \/ (batchPc = "returned" /\ batchErr = "nil") =>
           {gigFiles[i] : i \in 1..Len(gigFiles)} =
             {n \in gigsDir : HasSuffix(n, Yaml) \/ HasSuffix(n, Yml)}

\* c.yaml was processed ahead of a.yml and b.yml
C19_Witness ==
  /\ Len(attempts) = 4
  /\ attempts[1].doc = <<"a">> \o Yaml
  /\ attempts[2].doc = <<"c">> \o Yaml
  /\ attempts[3].doc = <<"a">> \o Yml
  /\ attempts[4].doc = <<"b">> \o Yml

(***************************************************************************)
(* C20: write/create events each less than 500 ms after the one before     *)
(* form a burst; a burst starts exactly one regeneration, 500 ms after its *)
(* last event, and a new event cancels the timer the event before it       *)
(* started (at most one timer is pending, that of the latest event).       *)
(***************************************************************************)
\* the times of the write/create events received, in order
Changes == SelectSeq(events, LAMBDA e : IsWriteOrCreate(e.op))

\* the i-th change is the last of its burst as far as is known by time t
LastOfBurst(i, t) ==
  \A j \in (i + 1)..Len(Changes) : Changes[j].at >= Changes[i].at + 500 \/ Changes[j].at > t

C20_OneRegenerationPerBurst ==
  LET c == Changes
  IN  /\ \A n \in 1..Len(regens) :
           \E i \in 1..Len(c) : /\ regens[n] = c[i].at + 500
                                 /\ \A j \in 1..Len(c) :
                                      c[j].at < regens[n] => c[j].at <= c[i].at
      /\ \A n \in 1..(Len(regens) - 1) : regens[n] < regens[n + 1]
      /\ \A i \in 1..Len(c) :
           (c[i].at + 500 < now /\ LastOfBurst(i, c[i].at + 500)) =>
             \E n \in 1..Len(regens) : regens[n] = c[i].at + 500
      /\ timers \subseteq (IF c = <<>> THEN {} ELSE {c[Len(c)].at + 500})

\* a burst of three changes over 800 ms started one regeneration, 500 ms
\* after the third
C20_Witness ==
  /\ Len(Changes) = 3
  /\ Changes[1].at = 0 /\ Changes[2].at = 400 /\ Changes[3].at = 800
  /\ regens = <<1300>>
  /\ now = 1300

(***************************************************************************)
(* C21: at most one generateAllGigs call started by the watch loop is in   *)
(* progress at any moment.                                                 *)
(***************************************************************************)
C21_OneGenerationAtATime == running <= 1

(***************************************************************************)
(* C22: the variant of an entry is the text after the first '#' of its     *)
(* reference, or "default" without a '#'; an image override the song       *)
(* defines is used instead, and one it does not define changes nothing.    *)
(* The entry is laid out as the image of that variant, or as the error     *)
(* block naming it when the song does not define it.                       *)
(***************************************************************************)
\* the path config.yaml gives for a variant of a nickname
PathOf(nick, v) ==
  LET song == ConfigSongs[CHOOSE i \in 1..Len(ConfigSongs) : ConfigSongs[i].nickname = nick]
  IN  IF v \in DOMAIN song.images THEN song.images[v] ELSE song.image

\* entry k is laid out as variant v of the song nick
LaidOutAs(k, nick, v) ==
  \E i \in BlocksOf(k) :
    IF v \in VariantsOf(nick)
    THEN /\ ops[i].op = "PlaceImage"
         /\ LET f == Files[PathOf(nick, v)]
                size == ScaledSize(f.w, f.h)
            IN  ops[i].w = size.w /\ ops[i].h = size.h
    ELSE /\ ops[i].op = "PlaceError"
         /\ ops[i].text = [kind |-> "NoImage", image |-> v, song |-> nick]

WithOverride(nick, v) ==
  IF imageOverride # <<>> /\ imageOverride \in VariantsOf(nick) THEN imageOverride ELSE v

C22_VariantAfterFirstHash ==
  \A k \in 1..Len(Entries) :
    LET nick == BeforeHash(Entries[k])
    IN  nick \in Nicknames => LaidOutAs(k, nick, WithOverride(nick, VariantOf(Entries[k])))

(***************************************************************************)
(* C22 amended: the same, the variant being the text between the first '#' *)
(* of the reference and its next '#' or its end.                           *)
(***************************************************************************)
VariantToNextHash(s) == IF HasHash(s) THEN BeforeHash(AfterHash(s)) ELSE Default

C22_VariantToNextHash ==
  \A k \in 1..Len(Entries) :
    LET nick == BeforeHash(Entries[k])
    IN  nick \in Nicknames => LaidOutAs(k, nick, WithOverride(nick, VariantToNextHash(Entries[k])))

\* under the override "alt", which a does not define and n does: a#big#x is
\* laid out as the big image of a, n#alt as the alt image of n, and a#x as
\* the error block naming x
C22_Witness ==
  /\ imageOverride = Alt
  /\ Entries = << <<"a", "#", "b", "i", "g", "#", "x">>, <<"n", "#", "a", "l", "t">>,
                  <<"a", "#", "x">> >>
  /\ \A k \in 1..2 : \E i \in BlocksOf(k) : ops[i].op = "PlaceImage" /\ ops[i].w = R(190)
  /\ \E i \in BlocksOf(3) : ops[i].op = "PlaceError" /\ ops[i].text.image = <<"x">>

(***************************************************************************)
(* C23: the detected bounds of every raster satisfy left <= right and      *)
(* top <= bottom; with a foreground pixel left < right and top < bottom;   *)
(* with none (white or transparent pixels only) the four bounds are the    *)
(* raster's extent and the raster is returned uncropped.  The bounds never *)
(* meet the test of the invalid-dimensions fallback of cropImage.          *)
(***************************************************************************)
\* cropImage gets past the no-crop return and finds a width or height <= 0
ReachesInvalidDimensions(b, image) ==
  /\ ~(b.left <= 0 /\ b.top <= 0 /\ b.bottom >= image.h /\ b.right >= image.w)
  /\ (b.right - b.left <= 0 \/ b.bottom - b.top <= 0)

C23_BoundsOrdered ==
  croppedImg # <<>> =>
    LET b == detected[1]
    IN  /\ b.left <= b.right /\ b.top <= b.bottom
        /\ Foreground(img) # {} => b.left < b.right /\ b.top < b.bottom
        /\ Foreground(img) = {} => b = FullExtent(img) /\ croppedImg[1] = img
        /\ ~ReachesInvalidDimensions(b, img)

\* a raster of opaque white and fully transparent pixels came back as it was
C23_Witness ==
  /\ croppedImg = <<img>>
  /\ img.w = 3 /\ img.h = 2
  /\ Foreground(img) = {}
  /\ \E p \in DOMAIN img.pix : img.pix[p] = NRGBA(0, 0, 0, 0)
  /\ \E p \in DOMAIN img.pix : img.pix[p] = White
  /\ detected[1] = [left |-> 0, top |-> 0, bottom |-> 2, right |-> 3]

(***************************************************************************)
(* C24: every placed block lies inside the content area of its page: its   *)
(* top plus its height plus the spacing is at most pageHeight -            *)
(* footerHeight - margin, whatever the height of the image.                *)
(***************************************************************************)
C24_BlocksInContentArea ==
  \A i \in 1..Len(ops) :
    IsBlock(ops[i]) =>
      RLe(RAdd(ops[i].y, RAdd(BlockHeight(ops[i]), spacing)), ContentBottom)

(***************************************************************************)
(* C25: a page is started only when the page before it holds at least one  *)
(* block, so no page is left blank before a block, however tall.           *)
(***************************************************************************)
C25_NoBlankPage ==
  \A i \in 2..Len(ops) :
    ops[i].op = "StartPage" => IsBlock(ops[i - 1])

(***************************************************************************)
(* C26: with spacing >= 0 and blocks of positive height, the cursor is     *)
(* never above the margin, and it is at the margin exactly when no block   *)
(* has been placed on the current page.                                    *)
(***************************************************************************)
\* the blocks placed since the last page start
BlocksOnCurrentPage ==
  {i \in 1..Len(ops) : IsBlock(ops[i]) /\ \A j \in i..Len(ops) : ops[j].op # "StartPage"}

C26_CursorAtMarginIffEmptyPage ==
  (/\ RLe(R(0), spacing)
   /\ \A i \in 1..Len(ops) : IsBlock(ops[i]) => RGt(BlockHeight(ops[i]), R(0))) =>
    /\ RLe(R(10), currentY)
    /\ currentY = R(10) <=> BlocksOnCurrentPage = {}

\* the second set has begun on a page of its own: blocks on page 1, none on
\* page 2 and the cursor at the margin
C26_Witness ==
  /\ Len(gig) = 2 /\ Len(gig[1]) = 2 /\ Len(gig[2]) = 0
  /\ pageNum = 2
  /\ Len(Blocks) = 2
  /\ BlocksOnCurrentPage = {}
  /\ currentY = R(10)

(***************************************************************************)
(* C27: the spacing resolveSpacing returns is never negative, whatever the *)
(* --spacing argument and the spacing key of the config file.              *)
(***************************************************************************)
C27_SpacingNeverNegative ==
  spacingPc = "resolved" => ~RLt(resolved[1], R(0))

(***************************************************************************)
(* C28: every write or create event is eventually followed by a            *)
(* regeneration that starts after it (time passing and due timers firing), *)
(* and an event of another kind neither starts nor cancels a pending       *)
(* regeneration.                                                           *)
(***************************************************************************)
\* the write and create events received so far
ChangeEvents == SelectSeq(events, LAMBDA e : e.op \cap {"Write", "Create"} # {})

\* a regeneration has started after the last change received, and so after
\* every change received
RegeneratedAfterLast ==
  /\ ChangeEvents # <<>>
  /\ \E k \in 1..Len(regens) : regens[k] > Last(ChangeEvents).at

OtherEventLeavesTimers ==
  (Len(events') = Len(events) + 1 /\ Last(events').op \cap {"Write", "Create"} = {}) =>
    /\ timers' = timers
    /\ debounceTimer' = debounceTimer
    /\ regens' = regens

C28_ChangesAreProcessed ==
  /\ (ChangeEvents # <<>>) ~> RegeneratedAfterLast
  /\ [][OtherEventLeavesTimers]_vars

\* a chmod arrived while the timer of a write was pending, and the
\* regeneration started 500 ms after the write all the same
C28_Witness ==
  /\ events = <<[at |-> 0, op |-> {"Write"}], [at |-> 200, op |-> {"Chmod"}]>>
  /\ regens = <<500>>

(***************************************************************************)
(* C29: within one batch no two distinct gig files whose PDF was written   *)
(* have the same output path.                                              *)
(***************************************************************************)
C29_DistinctOutputs ==
  \A i, j \in 1..Len(GigAttempts) :
    (/\ i # j
     /\ GigAttempts[i].doc # GigAttempts[j].doc
     /\ GigAttempts[i].outcome = "ok" /\ GigAttempts[j].outcome = "ok") =>
      GigAttempts[i].outputFile # GigAttempts[j].outputFile

(***************************************************************************)
(* C30: every document is generated from a fresh start: whatever documents *)
(* were generated before it by the same process, its layout is the one its *)
(* own gig, spacing and image override give from page 1 and the top        *)
(* margin, with no image registered.                                       *)
(***************************************************************************)
\* the cursor state of a generatePDF call before its first page
Fresh ==
  [currentY |-> R(10), pageNum |-> 0, ops |-> <<>>,
   images |-> [n \in {} |-> [w |-> R(0), h |-> R(0)]], pdfErr |-> FALSE]

\* the songs of a set laid out in turn from L, k entries having been read
RECURSIVE LayoutOfSongs(_, _, _)
LayoutOfSongs(L, songs, k) ==
  IF songs = <<>> THEN L
  ELSE LayoutOfSongs(songStep(L, spacing, imageOverride, Head(songs), k + 1),
                     Tail(songs), k + 1)

\* the sets from the i-th on laid out in turn from L
RECURSIVE LayoutOfSets(_, _)
LayoutOfSets(L, i) ==
  IF i > Len(gig) THEN L
  ELSE LayoutOfSets(LayoutOfSongs(setBoundary(L, i - 1), gig[i],
                                  CountSongs(SubSeq(gig, 1, i - 1))),
                    i + 1)

====
